---------------------------- MODULE Spec2Model ----------------------------
(***************************************************************************)
(* A model of filter_and_email.py: the table extractor, the differ, the    *)
(* filter engine and the run of main().                                    *)
(*                                                                         *)
(* Text is modelled as a sequence of one-character strings, so that        *)
(* strip(), lower() and the substring test `in` are computed as Python     *)
(* computes them.  A document is a sequence of tokens: a markup tag, an    *)
(* HTML entity or one character of text.  The regular expressions of the   *)
(* source only ever match whole tags, so a token is the unit they see.     *)
(***************************************************************************)
EXTENDS Integers, Sequences, FiniteSets, TLC

VARIABLES
    pc,       \* the position of the running function
    remote,   \* the tracked repository: its history and the lookback window
    fs,       \* the persisted-state file (state/last_sha.txt)
    fs0,      \* the persisted-state file when the run started
    calls,    \* the network calls made so far, in order
    locals,   \* main()'s local variables
    exit,     \* how the process ended
    args,     \* the arguments of the pure function under test
    ret       \* its return value

vars == <<pc, remote, fs, fs0, calls, locals, exit, args, ret>>

---------------------------------------------------------------------------
(* Bounds of the model.                                                    *)

MaxCommits == 3
MaxRows == 3
MaxItems == 4

---------------------------------------------------------------------------
(* Python values.                                                          *)

None == [some |-> FALSE, val |-> <<>>]
Some(v) == [some |-> TRUE, val |-> v]

\* Python truthiness of an Optional[str] / Optional[List]: None and the
\* empty value are both falsy.
Truthy(o) == o.some /\ o.val # <<>>

Range(s) == {s[i] : i \in 1..Len(s)}
SetMin(S) == CHOOSE x \in S : \A y \in S : x <= y
SetMax(S) == CHOOSE x \in S : \A y \in S : x >= y
Min2(a, b) == IF a <= b THEN a ELSE b

RECURSIVE Concat(_)
Concat(ss) == IF ss = <<>> THEN <<>> ELSE Head(ss) \o Concat(Tail(ss))

\* All sequences over S of length at most n.
SeqsUpTo(S, n) == UNION {[1..k -> S] : k \in 0..n}

UpperChars ==
    <<"A","B","C","D","E","F","G","H","I","J","K","L","M",
      "N","O","P","Q","R","S","T","U","V","W","X","Y","Z">>
LowerChars ==
    <<"a","b","c","d","e","f","g","h","i","j","k","l","m",
      "n","o","p","q","r","s","t","u","v","w","x","y","z">>
Digits == {"0","1","2","3","4","5","6","7","8","9"}

\* str.lower(), one character.
LowerChar(c) ==
    IF c \in Range(UpperChars)
    THEN LowerChars[CHOOSE i \in 1..Len(UpperChars) : UpperChars[i] = c]
    ELSE c

\* str.lower()
lower(s) == [i \in 1..Len(s) |-> LowerChar(s[i])]

\* The characters str.strip() removes.
Whitespace == {" ", "\t", "\n", "U+00A0"}

\* str.strip()
strip(s) ==
    LET keep == {i \in 1..Len(s) : s[i] \notin Whitespace}
    IN  IF keep = {} THEN <<>> ELSE SubSeq(s, SetMin(keep), SetMax(keep))

\* Python's `sub in s` on strings.
In(sub, s) ==
    \E i \in 0..(Len(s) - Len(sub)) : SubSeq(s, i + 1, i + Len(sub)) = sub

\* The regular expression class \w.
IsWordChar(c) == c \in Range(UpperChars) \cup Range(LowerChars) \cup Digits \cup {"_"}

\* re.search(rf"\b{word}\b", s) for a word made of \w characters.
SearchWord(word, s) ==
    \E i \in 0..(Len(s) - Len(word)) :
        /\ SubSeq(s, i + 1, i + Len(word)) = word
        /\ (i = 0 \/ ~IsWordChar(s[i]))
        /\ (i + Len(word) = Len(s) \/ ~IsWordChar(s[i + Len(word) + 1]))

---------------------------------------------------------------------------
(* The table extractor.                                                    *)

BrTags == {"<br>", "<br/>", "<BR>"}
AnchorHref ==
    << <<"<a href=\"https://simplify.jobs/p/1\">", "https://simplify.jobs/p/1">>,
       <<"<a href=\"https://acme.example/apply\">", "https://acme.example/apply">>,
       <<"<a href=\"https://beta.example/jobs\">", "https://beta.example/jobs">> >>
AnchorTags == {AnchorHref[i][1] : i \in 1..Len(AnchorHref)}
Href(t) == AnchorHref[CHOOSE i \in 1..Len(AnchorHref) : AnchorHref[i][1] = t][2]
SimplifyLinks == {"https://simplify.jobs/p/1"}
Tags ==
    {"<table>", "</table>", "<tr>", "</tr>", "<td>", "</td>", "<th>", "</th>",
     "<b>", "</b>", "</a>", "<img>", "<td align=\"center\">"}
        \cup BrTags \cup AnchorTags
\* An entity and the character it stands for ("U+00A0": the no-break space,
\* one character).
Entities == << <<"&amp;", "&">>, <<"&nbsp;", "U+00A0">> >>
EntityTokens == {Entities[i][1] : i \in 1..Len(Entities)}

\* re.findall / re.finditer of  open(.*?)close  with re.S over a token
\* sequence: the leftmost opening token that has a closing token after it,
\* the nearest such closing token, and on from behind the match.  Returns
\* the groups (.*?).
RECURSIVE FindAll(_, _, _)
FindAll(s, opens, closes) ==
    LET starts == {i \in 1..Len(s) :
                      s[i] \in opens /\ \E j \in (i + 1)..Len(s) : s[j] \in closes}
    IN  IF starts = {} THEN <<>>
        ELSE LET i == SetMin(starts)
                 j == SetMin({k \in (i + 1)..Len(s) : s[k] \in closes})
             IN  <<SubSeq(s, i + 1, j - 1)>>
                     \o FindAll(SubSeq(s, j + 1, Len(s)), opens, closes)

\* re.findall(r"<table>.*?</table>", readme, flags=re.S)
extract_tables(readme) ==
    LET groups == FindAll(readme, {"<table>"}, {"</table>"})
    IN  [i \in 1..Len(groups) |-> <<"<table>">> \o groups[i] \o <<"</table>">>]

\* re.findall(r"href=\"(https?://[^\"]+)\"", raw_cell)
link_matches(raw_cell) ==
    LET anchors == SelectSeq(raw_cell, LAMBDA t : t \in AnchorTags)
    IN  [i \in 1..Len(anchors) |-> Href(anchors[i])]

\* simplify_link or (link_matches[0] if link_matches else "")
cell_link(raw_cell) ==
    LET links == link_matches(raw_cell)
        simplify == SelectSeq(links, LAMBDA l : l \in SimplifyLinks)
    IN  IF simplify # <<>> THEN Head(simplify)
        ELSE IF links # <<>> THEN Head(links) ELSE ""

\* re.sub(r"<br\s*/?>", " | ", raw_cell, flags=re.I)
br_sub(raw_cell) ==
    Concat([i \in 1..Len(raw_cell) |->
               IF raw_cell[i] \in BrTags THEN <<" ", "|", " ">> ELSE <<raw_cell[i]>>])

\* re.sub(r"<[^>]+>", "", cleaned)
strip_tags(s) == SelectSeq(s, LAMBDA t : t \notin Tags)

\* html.unescape
unescape(s) ==
    [i \in 1..Len(s) |->
        IF s[i] \in EntityTokens
        THEN Entities[CHOOSE k \in 1..Len(Entities) : Entities[k][1] = s[i]][2]
        ELSE s[i]]

\* The cleaned text of a cell (lines 49-50).
clean_cell(raw_cell) == strip(unescape(strip_tags(br_sub(raw_cell))))

HeaderLabel == <<"C","o","m","p","a","n","y">>

\* parse_row without the test for the header label.
parse_row_KeepsHeader(block) ==
    LET raw == FindAll(block, {"<td>", "<th>"}, {"</td>", "</th>"})
        cell_values == [i \in 1..Len(raw) |-> clean_cell(raw[i])]
        cell_links == [i \in 1..Len(raw) |-> cell_link(raw[i])]
    IN  IF Len(cell_values) = 5
        THEN << [company |-> cell_values[1],
                 role |-> cell_values[2],
                 location |-> cell_values[3],
                 application |-> cell_values[4],
                 application_url |-> IF Len(cell_links) > 3 THEN cell_links[4] ELSE "",
                 age |-> cell_values[5]] >>
        ELSE <<>>

\* The rows of one <tr> block: the record when the block has five cells and
\* is no header, nothing otherwise (lines 43-60).
parse_row(block) ==
    LET raw == FindAll(block, {"<td>", "<th>"}, {"</td>", "</th>"})
        cell_values == [i \in 1..Len(raw) |-> clean_cell(raw[i])]
        cell_links == [i \in 1..Len(raw) |-> cell_link(raw[i])]
    IN  IF Len(cell_values) = 5 /\ cell_values[1] # HeaderLabel
        THEN << [company |-> cell_values[1],
                 role |-> cell_values[2],
                 location |-> cell_values[3],
                 application |-> cell_values[4],
                 application_url |-> IF Len(cell_links) > 3 THEN cell_links[4] ELSE "",
                 age |-> cell_values[5]] >>
        ELSE <<>>

parse_table(table_html) ==
    LET blocks == FindAll(table_html, {"<tr>"}, {"</tr>"})
    IN  Concat([i \in 1..Len(blocks) |-> parse_row(blocks[i])])

parse_tables(readme) ==
    LET tables == extract_tables(readme)
    IN  Concat([i \in 1..Len(tables) |-> parse_table(tables[i])])

---------------------------------------------------------------------------
(* The filter engine, the differ and the statistics.                       *)

CANADA_TOKENS ==
    << <<"c","a","n","a","d","a">>,
       <<"o","n","t","a","r","i","o">>,
       <<"b","r","i","t","i","s","h"," ","c","o","l","u","m","b","i","a">>,
       <<"a","l","b","e","r","t","a">>,
       <<"m","a","n","i","t","o","b","a">>,
       <<"s","a","s","k","a","t","c","h","e","w","a","n">>,
       <<"q","u","e","b","e","c">>,
       <<"n","o","v","a"," ","s","c","o","t","i","a">>,
       <<"n","e","w"," ","b","r","u","n","s","w","i","c","k">>,
       <<"n","e","w","f","o","u","n","d","l","a","n","d">>,
       <<"l","a","b","r","a","d","o","r">>,
       <<"p","r","i","n","c","e"," ","e","d","w","a","r","d"," ","i","s","l","a","n","d">>,
       <<"p","e","i">>,
       <<"n","o","r","t","h","w","e","s","t"," ","t","e","r","r","i","t","o","r","i","e","s">>,
       <<"y","u","k","o","n">>,
       <<"n","u","n","a","v","u","t">> >>

CANADA_ABBREVIATIONS ==
    << <<"O","N">>, <<"B","C">>, <<"A","B">>, <<"M","B">>, <<"S","K">>,
       <<"Q","C">>, <<"N","S">>, <<"N","B">>, <<"N","L">>, <<"P","E">>,
       <<"N","T">>, <<"Y","T">>, <<"N","U">> >>

is_canada_location(location) ==
    \/ \E i \in 1..Len(CANADA_TOKENS) : In(CANADA_TOKENS[i], lower(location))
    \/ \E i \in 1..Len(CANADA_ABBREVIATIONS) :
           SearchWord(CANADA_ABBREVIATIONS[i], location)

\* filter_rows.matches_location, with the allow_locations it closes over.
matches_location(allow_locations, loc) ==
    IF ~Truthy(allow_locations)
    THEN is_canada_location(loc)
    ELSE \E i \in 1..Len(allow_locations.val) :
             In(lower(allow_locations.val[i]), lower(loc))

\* filter_rows.matches_keywords
matches_keywords(text, keywords) ==
    \E i \in 1..Len(keywords) : In(lower(keywords[i]), lower(text))

\* f"{row.get('company','')} {row.get('role','')}"
title_text(row) == row.company \o <<" ">> \o row.role

\* The loop body with the exclude test reached only when no include
\* keywords are configured.
row_kept_ExcludeSkipped(row, allow_locations, include_keywords, exclude_keywords) ==
    IF ~matches_location(allow_locations, row.location) THEN FALSE
    ELSE IF Truthy(include_keywords)
    THEN matches_keywords(title_text(row), include_keywords.val)
    ELSE IF Truthy(exclude_keywords)
            /\ matches_keywords(title_text(row), exclude_keywords.val) THEN FALSE
    ELSE TRUE

\* The body of filter_rows' loop for one row: TRUE when the row is appended,
\* FALSE when one of the three `continue`s is taken.
row_kept(row, allow_locations, include_keywords, exclude_keywords) ==
    IF ~matches_location(allow_locations, row.location) THEN FALSE
    ELSE IF Truthy(include_keywords)
            /\ ~matches_keywords(title_text(row), include_keywords.val) THEN FALSE
    ELSE IF Truthy(exclude_keywords)
            /\ matches_keywords(title_text(row), exclude_keywords.val) THEN FALSE
    ELSE TRUE

RECURSIVE filter_rows(_, _, _, _)
filter_rows(rows, allow_locations, include_keywords, exclude_keywords) ==
    IF rows = <<>> THEN <<>>
    ELSE (IF row_kept(Head(rows), allow_locations, include_keywords, exclude_keywords)
          THEN <<Head(rows)>> ELSE <<>>)
         \o filter_rows(Tail(rows), allow_locations, include_keywords, exclude_keywords)

\* The key without the trimming.
unique_key_NoStrip(row) == <<row.company, row.role, row.location>>

unique_key(row) == <<strip(row.company), strip(row.role), strip(row.location)>>

diff_new_rows(current, previous) ==
    LET prev_keys == {unique_key(previous[i]) : i \in 1..Len(previous)}
    IN  SelectSeq(current, LAMBDA r : unique_key(r) \notin prev_keys)

count_locations(rows) ==
    LET total == Len(rows)
        canada == Len(SelectSeq(rows, LAMBDA r : is_canada_location(r.location)))
    IN  [total |-> total, canada |-> canada, other |-> total - canada]

---------------------------------------------------------------------------
(* Configuration and persisted state.                                      *)

\* str.split(',')
RECURSIVE Split(_)
Split(s) ==
    LET commas == {i \in 1..Len(s) : s[i] = ","}
    IN  IF commas = {} THEN <<s>>
        ELSE <<SubSeq(s, 1, SetMin(commas) - 1)>>
                 \o Split(SubSeq(s, SetMin(commas) + 1, Len(s)))

\* env_list, of the value os.getenv returned.
env_list(val) ==
    IF ~Truthy(val) THEN None
    ELSE LET parts == Split(val.val)
             stripped == [i \in 1..Len(parts) |-> strip(parts[i])]
         IN  Some(SelectSeq(stripped, LAMBDA v : v # <<>>))

\* os.getenv(name, default)
getenv_default(val, default) == IF val.some THEN val.val ELSE default

\* os.getenv("FILTER_BY_LOCATION", "true").lower() in {"1", "true", "yes"}
env_flag(val) ==
    lower(getenv_default(val, <<"t","r","u","e">>))
        \in {<<"1">>, <<"t","r","u","e">>, <<"y","e","s">>}

\* int() of a string of decimal digits.
RECURSIVE ParseInt(_)
ParseInt(s) ==
    IF s = <<>> THEN 0
    ELSE 10 * ParseInt(SubSeq(s, 1, Len(s) - 1))
         + (CHOOSE d \in 0..9 : <<"0","1","2","3","4","5","6","7","8","9">>[d + 1] = s[Len(s)])

\* Whether int() accepts the string: decimal digits (of the values drawn
\* here; anything else raises ValueError).
IsDecimal(s) == s # <<>> /\ \A i \in 1..Len(s) : s[i] \in Digits

DefaultSmtpPort == 587
DefaultLookbackHours == 24

\* int(smtp_port_value) if smtp_port_value else 587
smtp_port_of(val) == IF Truthy(val) THEN ParseInt(val.val) ELSE DefaultSmtpPort

\* int(lookback_hours_value) if lookback_hours_value else 24
lookback_hours_of(val) == IF Truthy(val) THEN ParseInt(val.val) ELSE DefaultLookbackHours

\* save_last_sha: the file's content afterwards.
save_last_sha(file, sha) == Some(sha)

---------------------------------------------------------------------------
(* Documents: markup written out token by token.                           *)

Td(raw) == <<"<td>">> \o raw \o <<"</td>">>
Th(raw) == <<"<th>">> \o raw \o <<"</th>">>
Tr(cells) == <<"<tr>">> \o Concat(cells) \o <<"</tr>">>

AcmeRow ==
    Tr(<< Td(<<"<b>", "A","c","m","e", "</b>">>),
          Td(<<"S","W","E">>),
          Td(<<"T","o","r","o","n","t","o",","," ","O","N">>),
          Td(<<"<a href=\"https://acme.example/apply\">", "<img>", "</a>", " ",
               "<a href=\"https://simplify.jobs/p/1\">", "<img>", "</a>">>),
          Td(<<"2","d">>) >>)

BetaRow ==
    Tr(<< Td(<<" ", "B","e","t","a", "\n">>),
          Td(<<"S","R","E"," ","&amp;"," ","Q","A">>),
          Td(<<"N","Y", "<br>", "S","F">>),
          Td(<<"<a href=\"https://beta.example/jobs\">", "A","p","p","l","y", "</a>">>),
          Td(<<"&nbsp;", "1","d">>) >>)

HeaderRow ==
    Tr(<< Th(<<"C","o","m","p","a","n","y">>), Th(<<"R","o","l","e">>),
          Th(<<"L","o","c">>), Th(<<"A","p","p">>), Th(<<"A","g","e">>) >>)

\* Five cells written, one of them with an attribute the cell pattern does
\* not match.
ShortRow ==
    Tr(<< Td(<<"X">>), <<"<td align=\"center\">", "Y", "</td>">>,
          Td(<<"Z">>), Td(<<>>), Td(<<"3","d">>) >>)

LongRow ==
    Tr(<< Td(<<"X">>), Td(<<"Y">>), Td(<<"Z">>), Td(<<>>), Td(<<"3","d">>),
          Td(<<"!">>) >>)

\* A data row whose first cell cleans to the header label.
LabelRow ==
    Tr(<< Td(<<" ", "<b>", "C","o","m","p","a","n","y", "</b>">>), Td(<<"Y">>),
          Td(<<"B","C">>), Td(<<>>), Td(<<"4","d">>) >>)

\* The items a document is put together from: six rows, the end of one
\* table and start of the next, and a row standing between two tables.
ItemTokens ==
    << AcmeRow, BetaRow, HeaderRow, ShortRow, LongRow, LabelRow,
       <<"</table>", "\n", "<table>">>,
       <<"</table>">> \o AcmeRow \o <<"<table>">> >>

Items == 1..Len(ItemTokens)

\* The document of a sequence of items: a heading, then the table(s).
RenderDoc(items) ==
    <<"#", " ", "J","o","b","s", "\n", "<table>">>
        \o Concat([i \in 1..Len(items) |-> ItemTokens[items[i]]])
        \o <<"</table>", "\n">>

\* The documents the tracked repository's revisions hold.
Docs ==
    << RenderDoc(<<3, 1, 2>>),
       RenderDoc(<<3, 2>>),
       <<"#", " ", "J","o","b","s", "\n">> >>

---------------------------------------------------------------------------
(* The run of main().                                                      *)

ShaNames == <<"c1", "c2", "c3", "c4", "c5", "c6">>

\* The ages, in hours, a revision may have when the run starts.
Ages == {6, 12, 30, 36, 60}
Nth(A, i) == CHOOSE x \in A : Cardinality({y \in A : y < x}) = i - 1

\* The histories of the tracked branch, newest revision first.
Histories ==
    UNION {{[i \in 1..n |-> [sha |-> ShaNames[n - i + 1],
                              age |-> Nth(A, i),
                              doc |-> d[i]]] :
               A \in {B \in SUBSET Ages : Cardinality(B) = n},
               d \in [1..n -> 1..Len(Docs)]} :
           n \in 1..Min2(MaxCommits, Cardinality(Ages))}

ListLimit == 100

\* get_commits_since_time: the revisions not older than the window, newest
\* first, at most `limit` of them.  `since` is now - hours.
get_commits_since_time(history, hours, limit) ==
    LET recent == SelectSeq(history, LAMBDA c : c.age <= hours)
    IN  [i \in 1..Min2(Len(recent), limit) |-> recent[i].sha]

\* fetch_readme: the document at a branch (its newest revision) or a SHA.
fetch_readme(history, branch, ref) ==
    IF ref = branch THEN Docs[history[1].doc]
    ELSE Docs[history[CHOOSE i \in 1..Len(history) : history[i].sha = ref].doc]

\* The check of line 320 with EMAIL_FROM left out.
missing_credentials_ForgetsFrom(l) ==
    \/ ~Truthy(l.smtp_user) \/ ~Truthy(l.smtp_password) \/ ~Truthy(l.to_email)

\* line 320
missing_credentials(l) ==
    \/ ~Truthy(l.smtp_user) \/ ~Truthy(l.smtp_password)
    \/ ~Truthy(l.to_email) \/ ~Truthy(l.from_email)

\* main() saving the revision as soon as it has fetched the document.
state_file_after_SaveBeforeSend(stage, file, sha) ==
    IF stage = "fetch" THEN save_last_sha(file, sha) ELSE file

\* The persisted-state file after a stage of main(): main() calls
\* save_last_sha at no stage.
state_file_after(stage, file, sha) == file

\* allow_locations if filter_by_location else None (line 348)
location_argument(allow_locations, filter_by_location) ==
    IF filter_by_location THEN allow_locations ELSE None

\* shas[-1] (line 343)
previous_ref_of(shas) == shas[Len(shas)]

\* shas[0] if shas else branch (line 335)
latest_sha_of(shas, branch) == IF shas # <<>> THEN shas[1] ELSE branch

\* Lines 347-352: the diff, the filter, the statistics and the subject.
compose(l) ==
    LET new_rows == diff_new_rows(l.current_rows, l.previous_rows)
        filtered == filter_rows(new_rows,
                                location_argument(l.allow_locations, l.filter_by_location),
                                l.include_keywords, l.exclude_keywords)
    IN  [l EXCEPT !.new_rows = new_rows,
                  !.filtered = filtered,
                  !.stats = count_locations(new_rows),
                  !.subject_count = Len(filtered)]

CredValues == {None, Some(<<>>), Some(<<"x">>)}
FlagValues == {None, Some(<<"F","a","l","s","e">>), Some(<<"Y","E","S">>)}
AllowValues == {None, Some(<<"n","y",","," ",",","S","F">>)}
IncludeValues == {None, Some(<<"s","w","e",",","q","a">>)}
ExcludeValues == {None, Some(<<" ","S","R","E">>)}
LookbackValues == {None, Some(<<"4","8">>), Some(<<"2","d">>)}
PortValues == {None, Some(<<"5","8","7">>), Some(<<"s","s","l">>)}

Locals0 ==
    [smtp_port |-> 0, smtp_user |-> None, smtp_password |-> None, to_email |-> None, from_email |-> None,
     branch |-> "", allow_locations |-> None, filter_by_location |-> FALSE,
     include_keywords |-> None, exclude_keywords |-> None, lookback_hours |-> 0,
     shas |-> None, latest_sha |-> "", previous_ref |-> "",
     current_rows |-> <<>>, previous_rows |-> <<>>, new_rows |-> <<>>,
     filtered |-> <<>>, stats |-> [total |-> 0, canada |-> 0, other |-> 0],
     subject_count |-> 0]

InitMain ==
    /\ pc = "start"
    /\ remote \in Histories
    /\ fs0 \in {None, Some("c0")}
    /\ fs = fs0
    /\ calls = <<>>
    /\ locals = Locals0
    /\ exit = "running"
    /\ args = <<>>
    /\ ret = <<>>

Abort(how) == pc' = "exit" /\ exit' = how

\* Lines 313-321.  (smtp_host, line 313, is never unset and is only read
\* by send_email_smtp.)
CheckConfig ==
    /\ pc = "start"
    /\ \E port \in PortValues, u \in CredValues, p \in CredValues,
          t \in CredValues, f \in CredValues :
           IF Truthy(port) /\ ~IsDecimal(port.val)
           THEN locals' = locals /\ Abort("ValueError")
           ELSE LET l == [locals EXCEPT !.smtp_port = smtp_port_of(port),
                                        !.smtp_user = u, !.smtp_password = p,
                                        !.to_email = t, !.from_email = f]
                IN  /\ locals' = l
                    /\ IF missing_credentials(l)
                       THEN Abort("SystemExit: Missing SMTP_USER, SMTP_PASSWORD, EMAIL_TO, or EMAIL_FROM")
                       ELSE pc' = "options" /\ exit' = exit
    /\ fs' = state_file_after("config", fs, "")
    /\ UNCHANGED <<remote, fs0, calls, args, ret>>

\* Lines 323-332.
ReadOptions ==
    /\ pc = "options"
    /\ \E flag \in FlagValues, allow \in AllowValues, inc \in IncludeValues,
          exc \in ExcludeValues, hours \in LookbackValues :
           LET l == [locals EXCEPT !.branch = "dev",
                                   !.allow_locations = env_list(allow),
                                   !.filter_by_location = env_flag(flag),
                                   !.include_keywords = env_list(inc),
                                   !.exclude_keywords = env_list(exc)]
           IN  IF Truthy(hours) /\ ~IsDecimal(hours.val)
               THEN locals' = l /\ Abort("ValueError")
               ELSE /\ locals' = [l EXCEPT !.lookback_hours = lookback_hours_of(hours)]
                    /\ pc' = "list" /\ exit' = exit
    /\ fs' = state_file_after("options", fs, "")
    /\ UNCHANGED <<remote, fs0, calls, args, ret>>

\* Line 334, the request answered; line 335.
ListRevisions ==
    /\ pc = "list"
    /\ calls' = Append(calls, [op |-> "list", ref |-> locals.branch])
    /\ LET shas == get_commits_since_time(remote, locals.lookback_hours, ListLimit)
       IN  locals' = [locals EXCEPT !.shas = Some(shas),
                                    !.latest_sha = latest_sha_of(shas, locals.branch)]
    /\ pc' = "fetch_current"
    /\ fs' = state_file_after("list", fs, "")
    /\ UNCHANGED <<remote, fs0, exit, args, ret>>

\* Line 334, the request failing (raise_for_status, a timeout).
ListRevisionsFails ==
    /\ pc = "list"
    /\ calls' = Append(calls, [op |-> "list", ref |-> locals.branch])
    /\ Abort("HTTPError")
    /\ fs' = state_file_after("list", fs, "")
    /\ UNCHANGED <<remote, fs0, locals, args, ret>>

\* Lines 336-342, and 347-352 when no previous revision is fetched.
FetchCurrent ==
    /\ pc = "fetch_current"
    /\ calls' = Append(calls, [op |-> "fetch", ref |-> locals.latest_sha])
    /\ LET rows == parse_tables(fetch_readme(remote, locals.branch, locals.latest_sha))
           l == [locals EXCEPT !.current_rows = rows]
       IN  IF rows = <<>>
           THEN locals' = l /\ Abort("SystemExit: No tables found in current README")
           ELSE IF Truthy(l.shas) /\ Len(l.shas.val) > 1
           THEN locals' = l /\ pc' = "fetch_previous" /\ exit' = exit
           ELSE locals' = compose(l) /\ pc' = "send" /\ exit' = exit
    /\ fs' = state_file_after("fetch", fs, locals.latest_sha)
    /\ UNCHANGED <<remote, fs0, args, ret>>

\* Lines 343-352.
FetchPrevious ==
    /\ pc = "fetch_previous"
    /\ LET ref == previous_ref_of(locals.shas.val)
           rows == parse_tables(fetch_readme(remote, locals.branch, ref))
       IN  /\ calls' = Append(calls, [op |-> "fetch", ref |-> ref])
           /\ locals' = compose([locals EXCEPT !.previous_ref = ref,
                                               !.previous_rows = rows])
    /\ pc' = "send"
    /\ fs' = state_file_after("fetch", fs, locals.latest_sha)
    /\ UNCHANGED <<remote, fs0, exit, args, ret>>

\* Line 336 or 344, the request failing.
FetchFails ==
    /\ pc \in {"fetch_current", "fetch_previous"}
    /\ calls' = Append(calls, [op |-> "fetch",
                               ref |-> IF pc = "fetch_current" THEN locals.latest_sha
                                       ELSE previous_ref_of(locals.shas.val)])
    /\ Abort("HTTPError")
    /\ fs' = state_file_after("fetch_failed", fs, locals.latest_sha)
    /\ UNCHANGED <<remote, fs0, locals, args, ret>>

\* Lines 353-363, the message accepted: main() returns.
SendEmail ==
    /\ pc = "send"
    /\ calls' = Append(calls, [op |-> "send", ref |-> ""])
    /\ pc' = "exit"
    /\ exit' = "ok"
    /\ fs' = state_file_after("sent", fs, locals.latest_sha)
    /\ UNCHANGED <<remote, fs0, locals, args, ret>>

\* Lines 353-363, send_email_smtp raising.
SendEmailFails ==
    /\ pc = "send"
    /\ calls' = Append(calls, [op |-> "send", ref |-> ""])
    /\ Abort("SMTPException")
    /\ fs' = state_file_after("send_failed", fs, locals.latest_sha)
    /\ UNCHANGED <<remote, fs0, locals, args, ret>>

NextMain ==
    \/ CheckConfig
    \/ ReadOptions
    \/ ListRevisions
    \/ ListRevisionsFails
    \/ FetchCurrent
    \/ FetchPrevious
    \/ FetchFails
    \/ SendEmail
    \/ SendEmailFails

SpecMain == InitMain /\ [][NextMain]_vars

---------------------------------------------------------------------------
(* The claims about the run of main().                                     *)

LastCall == calls[Len(calls)]
Made(op) == \E i \in 1..Len(calls) : calls[i].op = op
MissingMessage == "SystemExit: Missing SMTP_USER, SMTP_PASSWORD, EMAIL_TO, or EMAIL_FROM"

\* C1: the persisted state differs from the state at the start of the run
\* only once the email send has returned successfully; so a run in which
\* the send fails, or an earlier stage aborts, exits with the state it
\* started with.
C1_StateOnlyAfterSuccessfulSend == exit # "ok" => fs = fs0

C1_Witness_SendFailed ==
    /\ pc = "exit" /\ exit = "SMTPException"
    /\ LastCall.op = "send"
    /\ Some(locals.latest_sha) # fs0

\* C2: a run that completes successfully ends with the persisted state
\* equal to the identifier of the current revision it processed.
C2_SuccessPersistsCurrent ==
    (pc = "exit" /\ exit = "ok") => fs = Some(locals.latest_sha)

\* C3: when the lister returns zero revisions the run fails with "no
\* revisions found" and fetches no document, sends no email and writes no
\* state.
C3_NoRevisionsNoSideEffects ==
    locals.shas = Some(<<>>) =>
        /\ ~Made("fetch") /\ ~Made("send") /\ fs = fs0
        /\ pc = "exit" => exit = "SystemExit: no revisions found"

\* The revisions inside the lookback window, as positions of the history.
InWindow == {i \in 1..Len(remote) : remote[i].age <= locals.lookback_hours}

\* C4: the previous revision main() compares against is the one just older
\* than the oldest revision inside the lookback window, also when exactly
\* one revision lies inside the window.
C4_PreviousIsPredecessorOfWindow ==
    (pc = "send" /\ InWindow # {} /\ SetMax(InWindow) < Len(remote)) =>
        /\ locals.previous_ref = remote[SetMax(InWindow) + 1].sha
        /\ locals.previous_rows = parse_tables(Docs[remote[SetMax(InWindow) + 1].doc])

\* The predicates of the filter, as the specification words them.
PassesLocation(row, allow) ==
    IF allow.some /\ Len(allow.val) > 0
    THEN \E a \in Range(allow.val) : In(lower(a), lower(row.location))
    ELSE is_canada_location(row.location)
PassesInclude(row, include) ==
    (include.some /\ Len(include.val) > 0) =>
        \E k \in Range(include.val) : In(lower(k), lower(row.company \o <<" ">> \o row.role))
HitsExclude(row, exclude) ==
    /\ exclude.some
    /\ \E k \in Range(exclude.val) : In(lower(k), lower(row.company \o <<" ">> \o row.role))

\* C5: with the location toggle off every new row passes the location
\* predicate, so the filtered set is the new rows that pass the include and
\* exclude keyword predicates.
C5_ToggleOffDisablesLocation ==
    (pc = "send" /\ ~locals.filter_by_location) =>
        locals.filtered =
            SelectSeq(locals.new_rows,
                      LAMBDA r : /\ PassesInclude(r, locals.include_keywords)
                                 /\ ~HitsExclude(r, locals.exclude_keywords))

AllCredentialsSet ==
    \A c \in {locals.smtp_user, locals.smtp_password, locals.to_email, locals.from_email} :
        c.some /\ Len(c.val) > 0

\* C6: when a required credential or address is missing (unset or empty),
\* main() aborts before any network call: no revision listing, no document
\* fetch, no send, no state write.
C6_MissingCredentialAbortsFirst ==
    (pc # "start" /\ ~AllCredentialsSet) =>
        /\ calls = <<>> /\ fs = fs0
        /\ pc = "exit" /\ exit \in {MissingMessage, "ValueError"}

C6_Witness_FromMissing ==
    /\ pc = "exit" /\ exit = MissingMessage
    /\ Truthy(locals.smtp_user) /\ Truthy(locals.smtp_password) /\ Truthy(locals.to_email)
    /\ locals.from_email = Some(<<>>)

---------------------------------------------------------------------------
(* The pure functions, each called on inputs drawn from a bounded set.     *)

Idle ==
    /\ remote = <<>> /\ fs = None /\ fs0 = None /\ calls = <<>>
    /\ locals = Locals0 /\ exit = "running" /\ ret = <<>>

Row(company, role, location, application, url, age) ==
    [company |-> company, role |-> role, location |-> location,
     application |-> application, application_url |-> url, age |-> age]

\* Rows for the differ: the first two have one key and differ in the rest,
\* the others differ from the first in the case of the company, in the
\* location and in the company.
DiffRows ==
    { Row(<<"A">>, <<"R">>, <<"L">>, <<"x">>, "", <<"1","d">>),
      Row(<<" ","A">>, <<"R"," ">>, <<"\n","L","\t">>, <<"y">>, "https://acme.example/apply", <<"2","d">>),
      Row(<<"a">>, <<"R">>, <<"L">>, <<"x">>, "", <<"1","d">>),
      Row(<<"A">>, <<"R">>, <<"M">>, <<"x">>, "", <<"1","d">>),
      Row(<<"B">>, <<"R">>, <<"L">>, <<"x">>, "", <<"1","d">>) }

InitDiff ==
    /\ pc = "diff_call"
    /\ args \in [current : SeqsUpTo(DiffRows, MaxRows), previous : SeqsUpTo(DiffRows, MaxRows)]
    /\ Idle

CallDiff ==
    /\ pc = "diff_call"
    /\ ret' = diff_new_rows(args.current, args.previous)
    /\ pc' = "diff_done"
    /\ UNCHANGED <<remote, fs, fs0, calls, locals, exit, args>>

NextDiff == CallDiff

SpecDiff == InitDiff /\ [][NextDiff]_vars

\* Trimming, one character at a time from either end.
RECURSIVE Trimmed(_)
Trimmed(s) ==
    IF s = <<>> THEN s
    ELSE IF Head(s) \in Whitespace THEN Trimmed(Tail(s))
    ELSE IF s[Len(s)] \in Whitespace THEN Trimmed(SubSeq(s, 1, Len(s) - 1))
    ELSE s

SameIdentity(r, q) ==
    /\ Trimmed(r.company) = Trimmed(q.company)
    /\ Trimmed(r.role) = Trimmed(q.role)
    /\ Trimmed(r.location) = Trimmed(q.location)

\* C7: diff_new_rows(current, previous) is the subsequence of current, in
\* order, of the rows whose trimmed, case-sensitive (company, role,
\* location) is that of no row of previous, whatever the application text,
\* URL and age; so diff_new_rows(S, S) is empty.
C7_DiffIsNewIdentities ==
    pc = "diff_done" =>
        /\ ret = SelectSeq(args.current,
                           LAMBDA r : \A i \in 1..Len(args.previous) :
                                          ~SameIdentity(r, args.previous[i]))
        /\ (args.current = args.previous => ret = <<>>)

C7_Witness_SameKeyOtherText ==
    /\ pc = "diff_done"
    /\ ret # <<>>
    /\ \E i \in 1..Len(args.current), j \in 1..Len(args.previous) :
           /\ args.current[i] # args.previous[j]
           /\ SameIdentity(args.current[i], args.previous[j])
           /\ args.current[i] \notin Range(ret)

FilterRows ==
    { Row(<<"A","c","m","e">>, <<"S","W","E">>, <<"T","o","r","o","n","t","o",","," ","O","N">>,
          <<>>, "https://simplify.jobs/p/1", <<"2","d">>),
      Row(<<"B","e","t","a">>, <<"S","R","E"," ","&"," ","Q","A">>, <<"N","Y"," ","|"," ","S","F">>,
          <<>>, "", <<"1","d">>),
      Row(<<"G","a","m">>, <<"S","r","e">>, <<"R","e","m","o","t","e"," ","(","C","a","n","a","d","a","/","U","S",")">>,
          <<>>, "", <<"1","d">>),
      Row(<<"D","o","n">>, <<"s","w","e"," ","q","a">>, <<"B","o","s","t","o","n">>,
          <<>>, "", <<"3","d">>) }

AllowLists ==
    {None, Some(<<>>), Some(<< <<"C","a","n","a","d","a">> >>),
     Some(<< <<"n","y">>, <<"b","o","s","t","o","n">> >>)}
KeywordLists ==
    {None, Some(<<>>), Some(<< <<>> >>), Some(<< <<"s","w","e">> >>),
     Some(<< <<"S","R","E">>, <<"q","a">> >>)}

InitFilter ==
    /\ pc = "filter_call"
    /\ args \in [rows : SeqsUpTo(FilterRows, MaxRows), allow : AllowLists,
                 include : KeywordLists, exclude : KeywordLists]
    /\ Idle

CallFilter ==
    /\ pc = "filter_call"
    /\ ret' = filter_rows(args.rows, args.allow, args.include, args.exclude)
    /\ pc' = "filter_done"
    /\ UNCHANGED <<remote, fs, fs0, calls, locals, exit, args>>

NextFilter == CallFilter

SpecFilter == InitFilter /\ [][NextFilter]_vars

\* C8: filter_rows returns the subsequence of the rows, in order, that pass
\* the location predicate and the include predicate and match no exclude
\* keyword; a row that passes the location predicate and matches an exclude
\* keyword is absent whatever the include keywords are.
C8_FilterIsConjunction ==
    pc = "filter_done" =>
        /\ ret = SelectSeq(args.rows,
                           LAMBDA r : /\ PassesLocation(r, args.allow)
                                      /\ PassesInclude(r, args.include)
                                      /\ ~HitsExclude(r, args.exclude))
        /\ \A i \in 1..Len(args.rows) :
               (PassesLocation(args.rows[i], args.allow)
                   /\ HitsExclude(args.rows[i], args.exclude))
                   => args.rows[i] \notin Range(ret)

C8_Witness_ExcludedDespiteInclude ==
    /\ pc = "filter_done"
    /\ ret # <<>>
    /\ \E i \in 1..Len(args.rows) :
           /\ PassesLocation(args.rows[i], args.allow)
           /\ args.include.some /\ Len(args.include.val) > 0
           /\ PassesInclude(args.rows[i], args.include)
           /\ HitsExclude(args.rows[i], args.exclude)

EmptyKeyword == Some(<< <<>> >>)

\* C9: a keyword list made of the one keyword "" matches no row: as the
\* include list it lets no row pass, as the exclude list it removes no row.
C9_EmptyKeywordNeverMatches ==
    pc = "filter_done" =>
        /\ (args.include = EmptyKeyword /\ args.exclude = None) => ret = <<>>
        /\ (args.exclude = EmptyKeyword /\ args.include = None) =>
               ret = SelectSeq(args.rows, LAMBDA r : PassesLocation(r, args.allow))

\* What each item of a document is to yield: the record of a well-formed
\* row, nothing for a header, a malformed row, a table boundary and a row
\* outside every table.
AcmeRecord ==
    Row(<<"A","c","m","e">>, <<"S","W","E">>, <<"T","o","r","o","n","t","o",","," ","O","N">>,
        <<>>, "https://simplify.jobs/p/1", <<"2","d">>)
BetaRecord ==
    Row(<<"B","e","t","a">>, <<"S","R","E"," ","&"," ","Q","A">>, <<"N","Y"," ","|"," ","S","F">>,
        <<"A","p","p","l","y">>, "https://beta.example/jobs", <<"1","d">>)
ItemExpect == << <<AcmeRecord>>, <<BetaRecord>>, <<>>, <<>>, <<>>, <<>>, <<>>, <<>> >>
WellFormedItems == {1, 2}

InitParse ==
    /\ pc = "parse_call"
    /\ \E items \in SeqsUpTo(Items, MaxItems) :
           args = [items |-> items, readme |-> RenderDoc(items)]
    /\ Idle

CallParse ==
    /\ pc = "parse_call"
    /\ ret' = parse_tables(args.readme)
    /\ pc' = "parse_done"
    /\ UNCHANGED <<remote, fs, fs0, calls, locals, exit, args>>

NextParse == CallParse

SpecParse == InitParse /\ [][NextParse]_vars

\* C10: parse_tables emits one record for each table row with exactly five
\* cells whose first cleaned cell is not "Company", and nothing for any
\* other row, in document order: N well-formed rows among M header or
\* malformed rows yield the N records in order.
C10_WellFormedRowsInOrder ==
    pc = "parse_done" =>
        /\ ret = Concat([i \in 1..Len(args.items) |-> ItemExpect[args.items[i]]])
        /\ Len(ret) = Cardinality({i \in 1..Len(args.items) : args.items[i] \in WellFormedItems})

C10_Witness_Interleaved ==
    /\ pc = "parse_done"
    /\ \E i \in 1..Len(args.items), j \in 1..Len(args.items), k \in 1..Len(args.items) :
           /\ i < j /\ j < k
           /\ args.items[i] = 3
           /\ args.items[j] \in WellFormedItems
           /\ args.items[k] \in {4, 5}
    /\ Len(ret) = 1

=============================================================================
